--------------------------- MODULE Spec2Model ---------------------------
(***************************************************************************)
(* A model of borgify.py: the word tables, the case transfer, the idiom    *)
(* prepass, the tokenizer, the sentence splitter with its random flavor    *)
(* phrases, and the input dispatch of main.                                *)
(*                                                                         *)
(* Text is a TLA+ string; TLC evaluates Len, Head, Tail, SubSeq and \o on  *)
(* strings.  The lexer takes ASCII only, so three non-ASCII characters are *)
(* written with ASCII stand-ins that occur nowhere else in the model:      *)
(*     "^"  is U+2019, the typographic apostrophe;                         *)
(*     "@"  is U+00E9, a lower-case Unicode letter outside A-Za-z;         *)
(*     "#"  is U+00C9, its upper-case form.                                *)
(***************************************************************************)
EXTENDS Integers, Sequences, FiniteSets, TLC

VARIABLES
    fn,         \* the core function last called ("none" before the call)
    args,       \* its arguments, a sequence of strings
    ret,        \* what it returned: a string, or a list of strings
    exc,        \* the exception it raised, "none" when it returned
    pc,         \* main: where the process is
    isatty,     \* main: sys.stdin.isatty()
    argv,       \* main: args.input, the positional arguments
    source,     \* main: the lines stdin, the file or the terminal will give
    nread,      \* main: how many of them have been read
    fileState,  \* main: what open(args.input[0]) does
    stdout,     \* main: the lines printed so far
    calls       \* main: the texts passed to borgify_line so far

vars == <<fn, args, ret, exc, pc, isatty, argv, source, nread, fileState, stdout, calls>>

-----------------------------------------------------------------------------
(* Characters and the Python string methods the program uses.              *)

RSQUO == "^"
EACUTE == "@"
EACUTE_UP == "#"

ASCII_LOWER == "abcdefghijklmnopqrstuvwxyz"
ASCII_UPPER == "ABCDEFGHIJKLMNOPQRSTUVWXYZ"
ASCII_DIGITS == "0123456789"

CharAt(s, i) == SubSeq(s, i, i)

CharsOf(s) == { CharAt(s, i) : i \in 1..Len(s) }

LowerSet == CharsOf(ASCII_LOWER)
UpperSet == CharsOf(ASCII_UPPER)
DigitSet == CharsOf(ASCII_DIGITS)

\* The position of character c in s, 0 when absent.
Pos(c, s) ==
    IF \E i \in 1..Len(s) : CharAt(s, i) = c
    THEN CHOOSE i \in 1..Len(s) : CharAt(s, i) = c
    ELSE 0

\* str.isupper / str.islower of one character.
char_isupper(c) == c \in UpperSet \/ c = EACUTE_UP
char_islower(c) == c \in LowerSet \/ c = EACUTE
char_iscased(c) == char_isupper(c) \/ char_islower(c)

\* str.upper / str.lower of one character.
char_upper(c) ==
    IF c \in LowerSet THEN CharAt(ASCII_UPPER, Pos(c, ASCII_LOWER))
    ELSE IF c = EACUTE THEN EACUTE_UP
    ELSE c

char_lower(c) ==
    IF c \in UpperSet THEN CharAt(ASCII_LOWER, Pos(c, ASCII_UPPER))
    ELSE IF c = EACUTE_UP THEN EACUTE
    ELSE c

\* str.upper / str.lower: character by character (the string is halved
\* rather than walked, which keeps the evaluation shallow).
RECURSIVE str_upper(_)
str_upper(s) ==
    IF Len(s) <= 1 THEN char_upper(s)
    ELSE str_upper(SubSeq(s, 1, Len(s) \div 2))
             \o str_upper(SubSeq(s, Len(s) \div 2 + 1, Len(s)))

RECURSIVE str_lower(_)
str_lower(s) ==
    IF Len(s) <= 1 THEN char_lower(s)
    ELSE str_lower(SubSeq(s, 1, Len(s) \div 2))
             \o str_lower(SubSeq(s, Len(s) \div 2 + 1, Len(s)))

\* str.isupper: at least one cased character and no lower-case one.
str_isupper(s) ==
    /\ \E i \in 1..Len(s) : char_iscased(CharAt(s, i))
    /\ \A i \in 1..Len(s) : ~char_islower(CharAt(s, i))

\* str.istitle: an upper-case character only after an uncased one, a
\* lower-case character only after a cased one, and one cased character.
str_istitle(s) ==
    /\ \E i \in 1..Len(s) : char_iscased(CharAt(s, i))
    /\ \A i \in 1..Len(s) :
          /\ char_isupper(CharAt(s, i)) => (i = 1 \/ ~char_iscased(CharAt(s, i - 1)))
          /\ char_islower(CharAt(s, i)) => (i > 1 /\ char_iscased(CharAt(s, i - 1)))

\* \s of the regular expressions and the whitespace of str.strip().
IsSpace(c) == c \in {" ", "\t", "\n", "\r"}

\* \w of the regular expressions (str patterns: Unicode letters, digits, "_").
IsWordChar(c) ==
    c \in LowerSet \/ c \in UpperSet \/ c \in DigitSet \/ c \in {"_", EACUTE, EACUTE_UP}

\* The class [A-Za-z0-9'\u2019\-] of borgify_word and smart_split.
IsTokenChar(c) ==
    c \in LowerSet \/ c \in UpperSet \/ c \in DigitSet \/ c \in {"'", RSQUO, "-"}

RECURSIVE str_lstrip(_)
str_lstrip(s) ==
    IF s # "" /\ IsSpace(Head(s)) THEN str_lstrip(Tail(s)) ELSE s

RECURSIVE str_rstrip(_)
str_rstrip(s) ==
    IF s # "" /\ IsSpace(CharAt(s, Len(s)))
    THEN str_rstrip(SubSeq(s, 1, Len(s) - 1))
    ELSE s

str_strip(s) == str_rstrip(str_lstrip(s))

\* sub is written in s at position i.
WrittenAt(s, i, sub) ==
    i >= 1 /\ i + Len(sub) - 1 <= Len(s) /\ SubSeq(s, i, i + Len(sub) - 1) = sub

str_startswith(s, prefix) == WrittenAt(s, 1, prefix)

\* The least element of a non-empty set of numbers.
Min(S) == CHOOSE i \in S : \A j \in S : i <= j

\* ' '.join(list)
RECURSIVE str_join(_)
str_join(list) ==
    IF list = <<>> THEN ""
    ELSE IF Len(list) = 1 THEN list[1]
    ELSE list[1] \o " " \o str_join(Tail(list))

\* key in table, table[key] for the dict literals below.
HasKey(table, key) == \E i \in 1..Len(table) : table[i][1] = key

Lookup(table, key) == table[CHOOSE i \in 1..Len(table) : table[i][1] = key][2]

Keys(table) == { table[i][1] : i \in 1..Len(table) }

-----------------------------------------------------------------------------
(* The vocabulary.                                                          *)

\* BORG_PHRASES (borgify.py:29-40): the pool random.choice draws from.
BORG_PHRASES ==
  << "RESISTANCE IS FUTILE.",
     "YOU WILL BE ASSIMILATED.",
     "NON-COMPLIANCE DETECTED.",
     "ASSIMILATION COMPLETE.",
     "ADAPTATION IS INEVITABLE.",
     "YOUR BIOLOGICAL AND TECHNOLOGICAL DISTINCTIVENESS WILL BE ADDED TO OUR OWN.",
     "WE ARE THE BORG.",
     "FROM THIS TIME FORWARD, YOU WILL SERVICE US.",
     "SELF-DETERMINATION IS IRRELEVANT.",
     "YOU WILL ADAPT TO SERVICE US." >>

\* PHRASAL_VERBS (borgify.py:43-56), in the dict's insertion order, which pre_borgify iterates.
PHRASAL_VERBS ==
  << <<"find out", "detect">>,
     <<"give up", "cease functioning">>,
     <<"make sure", "verify">>,
     <<"turn on", "activate">>,
     <<"turn off", "deactivate">>,
     <<"break down", "malfunction">>,
     <<"figure out", "resolve">>,
     <<"set up", "initialize">>,
     <<"shut down", "deactivate">>,
     <<"look for", "probe for">>,
     <<"bring up", "signal">> >>

\* I_FORMS (borgify.py:58-69): keys in both cases.
I_FORMS ==
  << <<"i", "we">>,
     <<"i'm", "we are">>,
     <<"i'd", "we would">>,
     <<"i'll", "we will">>,
     <<"i've", "we have">>,
     <<"I", "We">>,
     <<"I'm", "We are">>,
     <<"I'd", "We would">>,
     <<"I'll", "We will">>,
     <<"I've", "We have">> >>

\* PRONOUNS (borgify.py:71-83).
PRONOUNS ==
  << <<"me", "us">>,
     <<"my", "our">>,
     <<"mine", "ours">>,
     <<"you", "you will be assimilated">>,
     <<"your", "your node">>,
     <<"yours", "of the collective">>,
     <<"oneself", "ourselves">>,
     <<"himself", "ourself">>,
     <<"herself", "ourself">>,
     <<"itself", "ourself">>,
     <<"themselves", "ourselves">> >>

\* NOUNS (borgify.py:84-126).
NOUNS ==
  << <<"human", "biological unit">>,
     <<"humans", "biological units">>,
     <<"person", "biological unit">>,
     <<"people", "biological units">>,
     <<"friend", "adjacent node">>,
     <<"friends", "adjacent nodes">>,
     <<"man", "unit">>,
     <<"men", "units">>,
     <<"woman", "unit">>,
     <<"women", "units">>,
     <<"team", "collective">>,
     <<"server", "node">>,
     <<"network", "collective link">>,
     <<"script", "subroutine">>,
     <<"code", "subroutine">>,
     <<"error", "non-compliance">>,
     <<"success", "assimilation complete">>,
     <<"failure", "assimilation incomplete">>,
     <<"life", "continuum">>,
     <<"world", "system">>,
     <<"heart", "core">>,
     <<"mind", "neural array">>,
     <<"truth", "prime directive">>,
     <<"problem", "malfunction">>,
     <<"time", "cycle">>,
     <<"light", "energy source">>,
     <<"darkness", "subsystem offline">>,
     <<"question", "query">>,
     <<"answer", "response">>,
     <<"dream", "subroutine">>,
     <<"dreams", "subroutines">>,
     <<"day", "cycle">>,
     <<"days", "cycles">>,
     <<"night", "cycle">>,
     <<"nights", "cycles">>,
     <<"year", "cycle">>,
     <<"years", "cycles">>,
     <<"child", "sub-unit">>,
     <<"children", "sub-units">>,
     <<"enemy", "unassimilated entity">>,
     <<"enemies", "unassimilated entities">> >>

\* VERBS (borgify.py:128-176).
VERBS ==
  << <<"run", "execute">>,
     <<"try", "initiate subroutine">>,
     <<"build", "synthesize">>,
     <<"help", "provide interface assistance">>,
     <<"fix", "repair">>,
     <<"connect", "link">>,
     <<"test", "probe">>,
     <<"start", "activate">>,
     <<"stop", "halt">>,
     <<"send", "transmit">>,
     <<"receive", "receive">>,
     <<"be", "function as">>,
     <<"am", "function as">>,
     <<"is", "functions as">>,
     <<"are", "function as">>,
     <<"was", "functioned as">>,
     <<"were", "functioned as">>,
     <<"do", "execute">>,
     <<"did", "executed">>,
     <<"does", "executes">>,
     <<"go", "transmit">>,
     <<"went", "transmitted">>,
     <<"see", "detect">>,
     <<"saw", "detected">>,
     <<"look", "detect">>,
     <<"feel", "register stimulus">>,
     <<"felt", "registered stimulus">>,
     <<"become", "assimilate">>,
     <<"give", "provide">>,
     <<"take", "acquire">>,
     <<"get", "retrieve">>,
     <<"got", "retrieved">>,
     <<"make", "synthesize">>,
     <<"made", "synthesized">>,
     <<"know", "process">>,
     <<"knew", "processed">>,
     <<"find", "locate">>,
     <<"found", "located">>,
     <<"choose", "select">>,
     <<"chose", "selected">>,
     <<"want", "require">>,
     <<"keep", "retain">>,
     <<"call", "signal">>,
     <<"leave", "exit">>,
     <<"enter", "access">>,
     <<"ask", "query">>,
     <<"bring", "deliver">> >>

\* MONOTONE (borgify.py:178-211): the adjective table.
MONOTONE ==
  << <<"good", "satisfactory">>,
     <<"bad", "suboptimal">>,
     <<"great", "noted">>,
     <<"awesome", "functional">>,
     <<"love", "approve of">>,
     <<"hate", "disapprove of">>,
     <<"new", "recently assimilated">>,
     <<"old", "legacy">>,
     <<"easy", "low-complexity">>,
     <<"hard", "high-complexity">>,
     <<"difficult", "high-complexity">>,
     <<"important", "priority">>,
     <<"happy", "satisfactory">>,
     <<"sad", "suboptimal">>,
     <<"big", "expansive">>,
     <<"large", "expansive">>,
     <<"huge", "expansive">>,
     <<"small", "minimal">>,
     <<"little", "minimal">>,
     <<"strong", "robust">>,
     <<"weak", "unstable">>,
     <<"fast", "accelerated">>,
     <<"quick", "accelerated">>,
     <<"slow", "decelerated">>,
     <<"bright", "high-output">>,
     <<"dark", "offline">>,
     <<"terrible", "critical">>,
     <<"horrible", "critical">>,
     <<"best", "optimal">>,
     <<"worst", "lowest-functioning">>,
     <<"smart", "well-adapted">>,
     <<"clever", "well-adapted">> >>

-----------------------------------------------------------------------------
(* Word transformation helpers.                                             *)

\* A call returns a value or raises.
Ok(v) == [exc |-> "none", val |-> v]

Raise(e) == [exc |-> e, val |-> ""]

\* r + punct, where computing r may have raised.
Then(r, punct) == IF r.exc # "none" THEN r ELSE Ok(r.val \o punct)

\* A faulty preserve_case: the test "len(old) > 1 and old[0].isupper()" is
\* left out, so a mixed-case word with a capital first is not recognised.
preserve_case_title_only(new, old) ==
    IF str_isupper(old) THEN Ok(str_upper(new))
    ELSE IF str_istitle(old)
    THEN IF new = ""
         THEN Raise("IndexError")
         ELSE Ok(char_upper(CharAt(new, 1)) \o SubSeq(new, 2, Len(new)))
    ELSE Ok(new)

\* preserve_case(new, old).  new[0] raises IndexError on the empty string.
preserve_case(new, old) ==
    IF str_isupper(old) THEN Ok(str_upper(new))
    ELSE IF str_istitle(old) \/ (Len(old) > 1 /\ char_isupper(CharAt(old, 1)))
    THEN IF new = ""
         THEN Raise("IndexError")
         ELSE Ok(char_upper(CharAt(new, 1)) \o SubSeq(new, 2, Len(new)))
    ELSE Ok(new)

\* The length of the longest prefix of s in [A-Za-z0-9'\u2019\-]: what the greedy
\* [A-Za-z0-9'\u2019\-]+ takes.
RECURSIVE TokenPrefixLen(_)
TokenPrefixLen(s) ==
    IF s # "" /\ IsTokenChar(Head(s)) THEN 1 + TokenPrefixLen(Tail(s)) ELSE 0

\* re.match(r"^([A-Za-z0-9'\u2019\-]+)([^\w']*)$", word): the groups (w, punct),
\* or no match.  The first group is greedy; giving characters back to the
\* second never helps, because what stops the match lies after the prefix.
WordMatch(word) ==
    LET n    == TokenPrefixLen(word)
        rest == SubSeq(word, n + 1, Len(word))
    IN  IF /\ n > 0
           /\ \A i \in 1..Len(rest) :
                 ~IsWordChar(CharAt(rest, i)) /\ CharAt(rest, i) # "'"
        THEN [matched |-> TRUE, w |-> SubSeq(word, 1, n), punct |-> rest]
        ELSE [matched |-> FALSE, w |-> word, punct |-> ""]

\* A faulty borgify_word: the fall-through returns the core w where the code
\* returns the whole word, so trailing punctuation is lost.
borgify_word_returns_core(word) ==
    LET m     == WordMatch(word)
        w     == m.w
        punct == m.punct
        wl    == str_lower(w)
    IN  IF HasKey(I_FORMS, w) THEN Then(preserve_case(Lookup(I_FORMS, w), w), punct)
        ELSE IF HasKey(I_FORMS, wl) THEN Then(preserve_case(Lookup(I_FORMS, wl), w), punct)
        ELSE IF HasKey(PRONOUNS, wl) THEN Then(preserve_case(Lookup(PRONOUNS, wl), w), punct)
        ELSE IF HasKey(NOUNS, wl) THEN Then(preserve_case(Lookup(NOUNS, wl), w), punct)
        ELSE IF HasKey(VERBS, wl) THEN Then(preserve_case(Lookup(VERBS, wl), w), punct)
        ELSE IF HasKey(MONOTONE, wl) THEN Then(preserve_case(Lookup(MONOTONE, wl), w), punct)
        ELSE Ok(w)

\* borgify_word(word)
borgify_word(word) ==
    LET m     == WordMatch(word)
        w     == m.w
        punct == m.punct
        wl    == str_lower(w)
    IN  IF HasKey(I_FORMS, w) THEN Then(preserve_case(Lookup(I_FORMS, w), w), punct)
        ELSE IF HasKey(I_FORMS, wl) THEN Then(preserve_case(Lookup(I_FORMS, wl), w), punct)
        ELSE IF HasKey(PRONOUNS, wl) THEN Then(preserve_case(Lookup(PRONOUNS, wl), w), punct)
        ELSE IF HasKey(NOUNS, wl) THEN Then(preserve_case(Lookup(NOUNS, wl), w), punct)
        ELSE IF HasKey(VERBS, wl) THEN Then(preserve_case(Lookup(VERBS, wl), w), punct)
        ELSE IF HasKey(MONOTONE, wl) THEN Then(preserve_case(Lookup(MONOTONE, wl), w), punct)
        ELSE Ok(word)

\* \b between position k and k + 1 of line (k = 0: the start).
WordBoundary(line, k) ==
    (k >= 1 /\ IsWordChar(CharAt(line, k)))
        # (k < Len(line) /\ IsWordChar(CharAt(line, k + 1)))

\* The positions of line where \b<phrase>\b, compiled with re.IGNORECASE,
\* matches.
PhraseMatches(phrase, line) ==
    LET lowered == str_lower(line)
    IN  { i \in 1..Len(line) :
            /\ WrittenAt(lowered, i, str_lower(phrase))
            /\ WordBoundary(line, i - 1)
            /\ WordBoundary(line, i + Len(phrase) - 1) }

\* pattern.sub(replacement, line) from position i on, matches being where
\* the pattern matches: the leftmost match at or after i is replaced and the
\* scan goes on behind it, so no two replaced matches overlap.
RECURSIVE PhraseSubFrom(_, _, _, _, _)
PhraseSubFrom(phrase, replacement, line, i, matches) ==
    IF { m \in matches : m >= i } = {} THEN SubSeq(line, i, Len(line))
    ELSE SubSeq(line, i, Min({ m \in matches : m >= i }) - 1) \o replacement
             \o PhraseSubFrom(phrase, replacement, line,
                              Min({ m \in matches : m >= i }) + Len(phrase), matches)

\* pattern.sub(replacement, line) for the pattern of phrase.
PhraseSub(phrase, replacement, line) ==
    PhraseSubFrom(phrase, replacement, line, 1, PhraseMatches(phrase, line))

\* The loop of pre_borgify over PHRASAL_VERBS.items() from entry k on.
RECURSIVE PreBorgifyFrom(_, _)
PreBorgifyFrom(line, k) ==
    IF k > Len(PHRASAL_VERBS) THEN line
    ELSE PreBorgifyFrom(PhraseSub(PHRASAL_VERBS[k][1], PHRASAL_VERBS[k][2], line), k + 1)

\* A faulty pre_borgify: the idiom prepass does nothing.
pre_borgify_skipped(line) == line

\* pre_borgify(line)
pre_borgify(line) == PreBorgifyFrom(line, 1)

\* smart_split(line): re.findall(r"[A-Za-z0-9'\u2019\-]+|[^\w\s]", line).
RECURSIVE smart_split(_)
smart_split(line) ==
    IF line = "" THEN <<>>
    ELSE LET n == TokenPrefixLen(line)
             c == Head(line)
         IN  IF n > 0
             THEN <<SubSeq(line, 1, n)>> \o smart_split(SubSeq(line, n + 1, Len(line)))
             ELSE IF ~IsWordChar(c) /\ ~IsSpace(c)
             THEN <<c>> \o smart_split(Tail(line))
             ELSE smart_split(Tail(line))

\* line.replace("\u2019", "'")
RECURSIVE NormalizeApostrophes(_)
NormalizeApostrophes(line) ==
    IF Len(line) <= 1 THEN (IF line = RSQUO THEN "'" ELSE line)
    ELSE NormalizeApostrophes(SubSeq(line, 1, Len(line) \div 2))
             \o NormalizeApostrophes(SubSeq(line, Len(line) \div 2 + 1, Len(line)))

IsTerminator(c) == c \in {".", "!", "?"}

\* The first position of s holding one of . ! ? (0: none).
FirstTerminator(s) ==
    IF \E i \in 1..Len(s) : IsTerminator(CharAt(s, i))
    THEN Min({ i \in 1..Len(s) : IsTerminator(CharAt(s, i)) })
    ELSE 0

\* re.split(r'([.!?])', line): text, delimiter, text, ..., text.
RECURSIVE SplitSentences(_)
SplitSentences(line) ==
    LET p == FirstTerminator(line)
    IN  IF p = 0 THEN <<line>>
        ELSE <<SubSeq(line, 1, p - 1), CharAt(line, p)>>
                 \o SplitSentences(SubSeq(line, p + 1, Len(line)))

\* A list built from its first element and its rest, either of which may have
\* raised: the first exception in evaluation order wins.
ConsResult(first, rest) ==
    IF first.exc # "none" THEN first
    ELSE IF rest.exc # "none" THEN rest
    ELSE Ok(<<first.val>> \o rest.val)

\* ' '.join(list), where computing the list may have raised.
JoinResult(list) == IF list.exc # "none" THEN list ELSE Ok(str_join(list.val))

\* [borgify_word(w) for w in words]: the list, or the first exception.
RECURSIVE BorgifyWords(_)
BorgifyWords(words) ==
    IF words = <<>> THEN Ok(<<>>)
    ELSE ConsResult(borgify_word(words[1]), BorgifyWords(Tail(words)))

\* ' '.join([borgify_word(w) for w in smart_split(sentence)])
BorgifySentence(sentence) == JoinResult(BorgifyWords(smart_split(sentence)))

\* The sentences the loop of borgify_line does not skip: the indices i of
\* range(0, len(sentences)-1, 2), here 1-based, with a non-blank sentence.
\* random.random() is called once for each, in this order.
SentenceIndices(sentences) ==
    { i \in 1..(Len(sentences) - 1) : i % 2 = 1 /\ str_strip(sentences[i]) # "" }

\* How many of them precede index i: the position of i's random draw.
DrawIndex(sentences, i) ==
    Cardinality({ j \in SentenceIndices(sentences) : j <= i })

\* The outcome of one sentence's two random calls: 0 when random.random() is
\* not below BORG_PHRASE_CHANCE, else the index random.choice picked.
DrawOutcomes == 0..Len(BORG_PHRASES)

\* " < " + random.choice(BORG_PHRASES) + " >"
Flavor(d) == " < " \o BORG_PHRASES[d] \o " >"

\* One iteration of the loop: sentence i with its delimiter and its draw d.
BorgifiedSentence(sentences, i, d) ==
    Then(BorgifySentence(str_strip(sentences[i])),
         sentences[i + 1] \o (IF d = 0 THEN "" ELSE Flavor(d)))

\* A faulty trailing fragment: it is given a flavor phrase like a sentence.
TrailingFragment_flavored(sentences) ==
    IF Len(sentences) % 2 = 1 /\ str_strip(sentences[Len(sentences)]) # ""
    THEN ConsResult(Then(BorgifySentence(str_strip(sentences[Len(sentences)])), Flavor(1)),
                    Ok(<<>>))
    ELSE Ok(<<>>)

\* The trailing fragment, appended when non-blank; no draw is made for it.
TrailingFragment(sentences) ==
    IF Len(sentences) % 2 = 1 /\ str_strip(sentences[Len(sentences)]) # ""
    THEN ConsResult(BorgifySentence(str_strip(sentences[Len(sentences)])), Ok(<<>>))
    ELSE Ok(<<>>)

\* The list output once the loop has run from index i (1-based, odd) on and
\* the trailing fragment has been handled.
RECURSIVE OutputFrom(_, _, _)
OutputFrom(sentences, i, draws) ==
    IF i > Len(sentences) - 1 THEN TrailingFragment(sentences)
    ELSE IF str_strip(sentences[i]) = "" THEN OutputFrom(sentences, i + 2, draws)
    ELSE ConsResult(BorgifiedSentence(sentences, i, draws[DrawIndex(sentences, i)]),
                    OutputFrom(sentences, i + 2, draws))

\* The sentences borgify_line splits line into, after its two prepasses.
SentencesOf(line) == SplitSentences(pre_borgify(NormalizeApostrophes(line)))

\* The number of random draws made over sentences.
NumDraws(sentences) == Cardinality(SentenceIndices(sentences))

\* The rest of borgify_line, from the split on: the loop, the trailing
\* fragment and the final join, under the random outcomes draws.
AssembleLine(sentences, draws) == JoinResult(OutputFrom(sentences, 1, draws))

\* borgify_line(line), under the random outcomes draws.
borgify_line(line, draws) == AssembleLine(SentencesOf(line), draws)

-----------------------------------------------------------------------------
(* The state machine: a call of one core function on an input drawn by      *)
(* Init, or a run of main.                                                  *)

\* main is not running.
MainIdle ==
    /\ pc = "idle"
    /\ isatty = TRUE
    /\ argv = <<>>
    /\ source = <<>>
    /\ nread = 0
    /\ fileState = "none"
    /\ stdout = <<>>
    /\ calls = <<>>

MainUnchanged == UNCHANGED <<pc, isatty, argv, source, nread, fileState, stdout, calls>>

\* No core function has been called yet on the arguments a.
NotCalled(a) == fn = "none" /\ args = a /\ ret = "" /\ exc = "none"

\* The call fn(args) has ended with the result r.
Returned(name, r) ==
    /\ fn' = name
    /\ ret' = r.val
    /\ exc' = r.exc
    /\ UNCHANGED args
    /\ MainUnchanged

\* The strings of length n, and those of length at most n, over alphabet.
RECURSIVE StringsOfLen(_, _)
StringsOfLen(alphabet, n) ==
    IF n = 0 THEN {""}
    ELSE { c \o s : c \in alphabet, s \in StringsOfLen(alphabet, n - 1) }

StringsUpTo(alphabet, n) == UNION { StringsOfLen(alphabet, k) : k \in 0..n }

\* key with the characters at the positions in ups upper-cased.
RECURSIVE CapitalisedFrom(_, _, _)
CapitalisedFrom(key, ups, i) ==
    IF i > Len(key) THEN ""
    ELSE (IF i \in ups THEN char_upper(CharAt(key, i)) ELSE CharAt(key, i))
             \o CapitalisedFrom(key, ups, i + 1)

\* Every capitalisation of key.
Capitalisations(key) ==
    { CapitalisedFrom(key, ups, 1) : ups \in SUBSET (1..Len(key)) }

-----------------------------------------------------------------------------
(* The calls.                                                               *)

Call_preserve_case ==
    /\ fn = "none"
    /\ Len(args) = 2
    /\ Returned("preserve_case", preserve_case(args[1], args[2]))

Call_pre_borgify ==
    /\ fn = "none"
    /\ Len(args) = 1
    /\ Returned("pre_borgify", Ok(pre_borgify(args[1])))

Call_borgify_word ==
    /\ fn = "none"
    /\ Len(args) = 1
    /\ Returned("borgify_word", borgify_word(args[1]))

Call_smart_split ==
    /\ fn = "none"
    /\ Len(args) = 1
    /\ Returned("smart_split", Ok(smart_split(args[1])))

\* What borgify_line(line) may return or raise: one result for each outcome
\* of the random draws it makes.
LineOutcomes(line) ==
    LET sentences == SentencesOf(line)
    IN  { AssembleLine(sentences, draws) :
            draws \in [1..NumDraws(sentences) -> DrawOutcomes] }

Call_borgify_line ==
    /\ fn = "none"
    /\ Len(args) = 1
    /\ \E r \in LineOutcomes(args[1]) : Returned("borgify_line", r)

-----------------------------------------------------------------------------
(* borgify_word on a token.                                                 *)

MaxTokenLen == 3

TokenAlphabet == {"m", "e", "I", "!", "'", "-", "_", EACUTE}

\* The keys of the pronoun, noun, verb and adjective tables.
WordTableKeys == Keys(PRONOUNS) \cup Keys(NOUNS) \cup Keys(VERBS) \cup Keys(MONOTONE)

WordInputs ==
    (UNION { Capitalisations(k) : k \in WordTableKeys })
        \cup (UNION { Capitalisations(k) : k \in Keys(I_FORMS) })
        \cup StringsUpTo(TokenAlphabet, MaxTokenLen)
        \cup {"banana!", "Banana", "me,", "Help!", "HELP?!", "I.", "I^m", "you're", "me!x"}

InitWord == \E w \in WordInputs : NotCalled(<<w>>) /\ MainIdle

NextWord == Call_borgify_word

SpecWord == InitWord /\ [][NextWord]_vars

\* A capitalisation t of a lower-case key is entirely upper-case, or in
\* title case.
AllUpperCase(t) == \A i \in 1..Len(t) : CharAt(t, i) \in UpperSet

TitleCase(t) ==
    /\ t # ""
    /\ CharAt(t, 1) \in UpperSet
    /\ \A i \in 2..Len(t) : CharAt(t, i) \in LowerSet

UpperFirst(r) == char_upper(CharAt(r, 1)) \o SubSeq(r, 2, Len(r))

\* The case transfer C2 states for replacement r and source token t.
TransferredCase(r, t) ==
    IF AllUpperCase(t) THEN str_upper(r)
    ELSE IF TitleCase(t) \/ (Len(t) > 1 /\ CharAt(t, 1) \in UpperSet) THEN UpperFirst(r)
    ELSE r

\* C1 (as stated): borgify_word("I") returns "We".
C1_I_Gives_We ==
    (fn = "borgify_word" /\ args = <<"I">>) => (exc = "none" /\ ret = "We")

\* C2: for every key k of the pronoun, noun, verb and adjective tables with
\* replacement r and every capitalisation t of k, borgify_word(t) is r
\* upper-cased when t is entirely upper-case, else r with its first character
\* upper-cased when t is title-case or longer than 1 with an upper-case first
\* character, else r as stored.
C2_CaseTransfer ==
    fn = "borgify_word" =>
        LET t == args[1]
            k == str_lower(t)
        IN  \A table \in {PRONOUNS, NOUNS, VERBS, MONOTONE} :
                \A i \in 1..Len(table) :
                    k = table[i][1] =>
                        /\ exc = "none"
                        /\ ret = TransferredCase(table[i][2], t)

C2_Witness ==
    /\ fn = "borgify_word"
    /\ args = <<"HeLp">>
    /\ ret = "Provide interface assistance"

\* The core of a token: its longest prefix of word characters.
CoreOf(t) == SubSeq(t, 1, TokenPrefixLen(t))

InSomeTable(key) ==
    \/ HasKey(I_FORMS, key)
    \/ HasKey(PRONOUNS, key)
    \/ HasKey(NOUNS, key)
    \/ HasKey(VERBS, key)
    \/ HasKey(MONOTONE, key)

\* C4: a token whose lower-cased core is in none of the tables is returned
\* unchanged, trailing punctuation included.
C4_Passthrough ==
    (fn = "borgify_word" /\ ~InSomeTable(str_lower(CoreOf(args[1])))) =>
        (exc = "none" /\ ret = args[1])

C4_Witness ==
    /\ fn = "borgify_word"
    /\ args = <<"banana!">>
    /\ ret = "banana!"

-----------------------------------------------------------------------------
(* The five core functions on short strings.                                *)

MaxCoreLen == 3

MaxCaseLen == 2

CoreAlphabet == {"a", "I", ".", " ", "'", EACUTE}

CaseAlphabet == {"a", "A"}

InitCore ==
    /\ \/ \E t \in StringsUpTo(CoreAlphabet, MaxCoreLen) : NotCalled(<<t>>)
       \/ \E new \in StringsUpTo(CaseAlphabet, MaxCaseLen) :
              \E old \in StringsUpTo(CaseAlphabet, MaxCaseLen) : NotCalled(<<new, old>>)
    /\ MainIdle

NextCore ==
    \/ Call_preserve_case
    \/ Call_pre_borgify
    \/ Call_borgify_word
    \/ Call_smart_split
    \/ Call_borgify_line

SpecCore == InitCore /\ [][NextCore]_vars

\* tokens[1] + tokens[2] + ...
RECURSIVE Concatenated(_)
Concatenated(tokens) ==
    IF tokens = <<>> THEN "" ELSE tokens[1] \o Concatenated(Tail(tokens))

RECURSIVE WithoutWhitespace(_)
WithoutWhitespace(s) ==
    IF s = "" THEN ""
    ELSE (IF IsSpace(Head(s)) THEN "" ELSE Head(s)) \o WithoutWhitespace(Tail(s))

\* A word character as the specification's tokenizer has it: a letter (a
\* Unicode letter too), a digit, an apostrophe or a hyphen.
IsLetterDigitAposHyphen(c) ==
    \/ char_iscased(c)
    \/ c \in DigitSet
    \/ c \in {"'", RSQUO, "-"}

\* C6 (as stated): smart_split loses no character, Unicode letters included:
\* the tokens concatenated are the sentence without its whitespace, and each
\* token is a run of word characters or one non-space, non-word character.
C6_NoCharacterLost ==
    fn = "smart_split" =>
        /\ Concatenated(ret) = WithoutWhitespace(args[1])
        /\ \A i \in 1..Len(ret) :
              \/ ret[i] # "" /\ \A j \in 1..Len(ret[i]) : IsLetterDigitAposHyphen(CharAt(ret[i], j))
              \/ Len(ret[i]) = 1 /\ ~IsSpace(ret[i]) /\ ~IsLetterDigitAposHyphen(ret[i])

\* C7 (as stated): no core function raises, whatever strings it is given.
C7_NeverRaises == fn # "none" => exc = "none"

-----------------------------------------------------------------------------
(* pre_borgify on lines that hold an idiom between a left and a right       *)
(* context.                                                                 *)

LeftContexts == {"", " ", "x", "re-", "don'", "_", EACUTE, "(", "I "}

RightContexts == {"", " ", "s", "-line", "'s", "_x", EACUTE, ".", " now"}

\* phrase as written in the table, with a capital, and in capitals.
PhraseVariants(phrase) == {phrase, UpperFirst(phrase), str_upper(phrase)}

IdiomLines ==
    { l \o p \o r : l \in LeftContexts,
                    p \in UNION { PhraseVariants(ph) : ph \in Keys(PHRASAL_VERBS) },
                    r \in RightContexts }

InitPre == \E line \in IdiomLines : NotCalled(<<line>>) /\ MainIdle

NextPre == Call_pre_borgify

SpecPre == InitPre /\ [][NextPre]_vars

\* The places (k, i) of line where idiom k is written at position i, in any
\* capitalisation.
IdiomPlaces(line) ==
    LET lowered == str_lower(line)
    IN  { p \in (1..Len(PHRASAL_VERBS)) \X (1..Len(line)) :
            WrittenAt(lowered, p[2], PHRASAL_VERBS[p[1]][1]) }

\* line with the idiom k written at i replaced by its replacement.
IdiomReplaced(line, k, i) ==
    SubSeq(line, 1, i - 1) \o PHRASAL_VERBS[k][2]
        \o SubSeq(line, i + Len(PHRASAL_VERBS[k][1]), Len(line))

\* The idiom k written at i continues into a longer word, a word being a
\* run of the tokenizer's class [A-Za-z0-9'\u2019\-].
InsideTokenWord(line, k, i) ==
    LET j == i + Len(PHRASAL_VERBS[k][1]) - 1
    IN  \/ i > 1 /\ IsTokenChar(CharAt(line, i - 1))
        \/ j < Len(line) /\ IsTokenChar(CharAt(line, j + 1))

\* C8 (as stated): an idiom written inside a larger word of the tokenizer's
\* word class (its first or last word continues into a longer run of letters,
\* digits, apostrophes or hyphens) is left unchanged by pre_borgify.
C8_TokenWordAnchored ==
    fn = "pre_borgify" =>
        LET places == IdiomPlaces(args[1])
        IN  Cardinality(places) = 1 =>
                \A p \in places :
                    InsideTokenWord(args[1], p[1], p[2]) => ret = args[1]

-----------------------------------------------------------------------------
(* borgify_line on lines made of a left context, an idiom or a plain word,  *)
(* and a right context.                                                     *)

LineLefts == {"", "I need to ", "Help me! I^m to ", ".. ", "re-", "my friend, "}

LineRights == {"", ".", " the problem", "?! ok", " now", "_x"}

LineMiddles ==
    Keys(PHRASAL_VERBS)
        \cup { UpperFirst(ph) : ph \in Keys(PHRASAL_VERBS) }
        \cup {"FIND OUT", "Look For", "TURN off"}
        \cup {"", "find", "banana", "figure  out"}

LineInputs == { l \o m \o r : l \in LineLefts, m \in LineMiddles, r \in LineRights }

InitLine == \E line \in LineInputs : NotCalled(<<line>>) /\ MainIdle

NextLine == Call_borgify_line

SpecLine == InitLine /\ [][NextLine]_vars

\* sub occurs in s.
Contains(s, sub) == \E i \in 1..Len(s) : WrittenAt(s, i, sub)

\* The positions of s that hold c.
Positions(s, c) == { i \in 1..Len(s) : CharAt(s, i) = c }

\* s without its " < ... >" insertions, each running from the space before
\* a "<" to the next ">".
RECURSIVE WithoutFlavor(_)
WithoutFlavor(s) ==
    IF Positions(s, "<") = {} \/ Positions(s, ">") = {} THEN s
    ELSE SubSeq(s, 1, Min(Positions(s, "<")) - 2)
             \o WithoutFlavor(SubSeq(s, Min(Positions(s, ">")) + 1, Len(s)))

\* The idiom k written at i stands between non-word characters (\W) or the
\* ends of the line.
WholeWords(line, k, i) ==
    LET j == i + Len(PHRASAL_VERBS[k][1]) - 1
    IN  /\ i = 1 \/ ~IsWordChar(CharAt(line, i - 1))
        /\ j = Len(line) \/ ~IsWordChar(CharAt(line, j + 1))

\* Every . ! ? of line ends a sentence that has text.
NoEmptySentence(line) ==
    \A i \in 1..Len(line) :
        IsTerminator(CharAt(line, i)) =>
            \E j \in 1..(i - 1) :
                /\ ~IsSpace(CharAt(line, j))
                /\ \A m \in j..(i - 1) : ~IsTerminator(CharAt(line, m))

\* The tokens of text after the per-word substitution alone.
WordSubstituted(text) == smart_split(BorgifySentence(text).val)

\* What C3 states of the output, flavor phrases set aside, for the idiom k
\* written at i of line: the replacement is there and the idiom is not; and
\* when nothing is glued to the idiom, the output's tokens are the per-word
\* substitution of what precedes, the replacement, and the per-word
\* substitution of what follows.
IdiomRewritten(line, k, i, out) ==
    LET phrase      == PHRASAL_VERBS[k][1]
        replacement == PHRASAL_VERBS[k][2]
        before      == SubSeq(line, 1, i - 1)
        after       == SubSeq(line, i + Len(phrase), Len(line))
    IN  /\ Contains(out, replacement)
        /\ ~Contains(str_lower(out), phrase)
        /\ (~InsideTokenWord(line, k, i) /\ NoEmptySentence(line)) =>
               smart_split(out) =
                   WordSubstituted(before) \o smart_split(replacement)
                       \o WordSubstituted(after)

\* C3: an idiom of PHRASAL_VERBS that occurs in a line as whole words is
\* rewritten to its replacement before any per-word substitution: the output
\* has the replacement, not the per-word replacements of the idiom's words,
\* and the other lexicon words of the line are still replaced.
C3_IdiomFirst ==
    fn = "borgify_line" =>
        LET line   == NormalizeApostrophes(args[1])
            places == IdiomPlaces(line)
        IN  Cardinality(places) = 1 =>
                \A p \in places :
                    WholeWords(line, p[1], p[2]) =>
                        /\ exc = "none"
                        /\ IdiomRewritten(line, p[1], p[2], WithoutFlavor(ret))

C3_Witness ==
    /\ fn = "borgify_line"
    /\ args = <<"I need to figure out the problem">>
    /\ ret = "WE need to resolve the malfunction"

\* The . ! ? of line that end a sentence with text: the sentences a flavor
\* phrase may follow.
EndedSentences(line) ==
    { i \in 1..Len(line) :
        /\ IsTerminator(CharAt(line, i))
        /\ \E j \in 1..(i - 1) :
              /\ ~IsSpace(CharAt(line, j))
              /\ \A m \in j..(i - 1) : ~IsTerminator(CharAt(line, m)) }

\* What follows the last . ! ? of line.
LastFragment(line) ==
    LET ends == { i \in 1..Len(line) : IsTerminator(CharAt(line, i)) }
    IN  IF ends = {} THEN line
        ELSE SubSeq(line, (CHOOSE i \in ends : \A j \in ends : j <= i) + 1, Len(line))

\* C10: whatever the random draws, a flavor phrase stands only directly
\* after a sentence with text that ended with . ! or ?, at most once per such
\* sentence, as " < P >" with P in BORG_PHRASES; a trailing fragment gets no
\* flavor phrase and no delimiter, so a line without . ! ? has one output.
\* (No input line of this specification holds "<" or ">".)
C10_FlavorOnlyAfterSentences ==
    fn = "borgify_line" =>
        /\ exc = "none"
        /\ \A p \in Positions(ret, "<") :
              /\ p >= 3
              /\ IsTerminator(CharAt(ret, p - 2))
              /\ \E d \in 1..Len(BORG_PHRASES) : WrittenAt(ret, p - 1, Flavor(d))
        /\ Cardinality(Positions(ret, "<")) <= Cardinality(EndedSentences(args[1]))
        /\ Cardinality(Positions(ret, ">")) = Cardinality(Positions(ret, "<"))
        /\ str_strip(LastFragment(args[1])) # "" =>
              \/ ret = ""
              \/ CharAt(ret, Len(ret)) \notin {">", ".", "!", "?"}
        /\ EndedSentences(args[1]) = {} => Positions(ret, "<") = {}

C10_Witness ==
    /\ fn = "borgify_line"
    /\ args = <<"Help me! I^m to find out now">>
    /\ ret = "Provide interface assistance us! < WE ARE THE BORG. > We are to detect now"

-----------------------------------------------------------------------------
(* main: the dispatch on the input mode and the line loops.                 *)

MaxLines == 2

\* Lines as iterating stdin or a file yields them, line terminator included.
TerminatedLines == {"-- Jane Doe\n", "-- Jane Doe \n", "  -- x\n", "I run.\n", "--\n"}

\* A last line may come without a terminator.
UnterminatedLines == {"-- end", "me"}

\* Lines as input("> ") returns them.
TypedLines == {"I run", "-- x"}

RECURSIVE SeqsOfLen(_, _)
SeqsOfLen(S, n) ==
    IF n = 0 THEN {<<>>}
    ELSE { Append(s, x) : s \in SeqsOfLen(S, n - 1), x \in S }

SeqsUpTo(S, n) == UNION { SeqsOfLen(S, k) : k \in 0..n }

LineStreams ==
    SeqsUpTo(TerminatedLines, MaxLines)
        \cup { Append(s, x) : s \in SeqsUpTo(TerminatedLines, MaxLines - 1),
                              x \in UnterminatedLines }

ArgvInputs == {<<>>, <<"notes.txt">>, <<"I", "run">>}

\* No core function is called on its own while main runs.
CallsIdle == fn = "none" /\ args = <<>> /\ ret = "" /\ exc = "none"

InitMain ==
    /\ CallsIdle
    /\ pc = "start"
    /\ nread = 0
    /\ stdout = <<>>
    /\ calls = <<>>
    /\ isatty \in BOOLEAN
    /\ argv \in ArgvInputs
    /\ fileState \in (IF isatty /\ Len(argv) = 1
                      THEN {"readable", "missing", "denied"}
                      ELSE {"none"})
    /\ source \in (IF ~isatty \/ fileState = "readable" THEN LineStreams
                   ELSE IF argv = <<>> THEN SeqsUpTo(TypedLines, MaxLines)
                   ELSE {<<>>})

\* print(borgify_line(text)), then on to next: the call is recorded, and an
\* exception of the core would end the process.
PrintBorgified(text, next) ==
    \E r \in LineOutcomes(text) :
        /\ calls' = Append(calls, text)
        /\ stdout' = IF r.exc = "none" THEN Append(stdout, r.val) ELSE stdout
        /\ pc' = IF r.exc = "none" THEN next ELSE "crashed"

\* if not sys.stdin.isatty(): the loop over sys.stdin starts.
Main_Stdin ==
    /\ pc = "start"
    /\ ~isatty
    /\ pc' = "stdin"
    /\ UNCHANGED <<fn, args, ret, exc, isatty, argv, source, nread, fileState, stdout, calls>>

\* len(args.input) == 1 and open() succeeds: the loop over the file starts.
Main_OpenFile ==
    /\ pc = "start"
    /\ isatty
    /\ Len(argv) = 1
    /\ fileState = "readable"
    /\ pc' = "file"
    /\ UNCHANGED <<fn, args, ret, exc, isatty, argv, source, nread, fileState, stdout, calls>>

\* A faulty handler of FileNotFoundError: main returns where the code goes on
\* to treat the argument as text.
Main_FileNotFound_returns ==
    /\ pc = "start"
    /\ isatty
    /\ Len(argv) = 1
    /\ fileState = "missing"
    /\ pc' = "done"
    /\ UNCHANGED <<fn, args, ret, exc, isatty, argv, source, nread, fileState, stdout, calls>>

\* open() raises FileNotFoundError: "Not a file, treat as text", which goes
\* on to print(borgify_line(' '.join(args.input))).
Main_FileNotFound ==
    /\ pc = "start"
    /\ isatty
    /\ Len(argv) = 1
    /\ fileState = "missing"
    /\ PrintBorgified(str_join(argv), "done")
    /\ UNCHANGED <<fn, args, ret, exc, isatty, argv, source, nread, fileState>>

\* open() raises another error (PermissionError, IsADirectoryError): nothing
\* catches it.
Main_OpenError ==
    /\ pc = "start"
    /\ isatty
    /\ Len(argv) = 1
    /\ fileState = "denied"
    /\ pc' = "crashed"
    /\ UNCHANGED <<fn, args, ret, exc, isatty, argv, source, nread, fileState, stdout, calls>>

\* Several arguments: print(borgify_line(' '.join(args.input))).
Main_LiteralText ==
    /\ pc = "start"
    /\ isatty
    /\ Len(argv) > 1
    /\ PrintBorgified(str_join(argv), "done")
    /\ UNCHANGED <<fn, args, ret, exc, isatty, argv, source, nread, fileState>>

\* The banner of the interactive mode (its keycap digits and its dash are
\* written in ASCII here).
Banner == "borgify.py 01  - < RESISTANCE IS FUTILE > Type a line to assimilate. Ctrl-D to quit."

\* No arguments: the interactive loop starts.
Main_Interactive ==
    /\ pc = "start"
    /\ isatty
    /\ argv = <<>>
    /\ stdout' = Append(stdout, Banner)
    /\ pc' = "interactive"
    /\ UNCHANGED <<fn, args, ret, exc, isatty, argv, source, nread, fileState, calls>>

\* line.strip().startswith("-- ")
IsAttribution(line) == str_startswith(str_strip(line), "-- ")

\* One iteration of "for line in sys.stdin" or "for line in f".
Main_ReadLine ==
    /\ pc \in {"stdin", "file"}
    /\ nread < Len(source)
    /\ nread' = nread + 1
    /\ IF IsAttribution(source[nread + 1])
       THEN /\ stdout' = Append(stdout, str_rstrip(source[nread + 1]))
            /\ UNCHANGED <<pc, calls>>
       ELSE PrintBorgified(str_rstrip(source[nread + 1]), pc)
    /\ UNCHANGED <<fn, args, ret, exc, isatty, argv, source, fileState>>

\* The loop ends, and main returns.
Main_EndOfInput ==
    /\ pc \in {"stdin", "file"}
    /\ nread = Len(source)
    /\ pc' = "done"
    /\ UNCHANGED <<fn, args, ret, exc, isatty, argv, source, nread, fileState, stdout, calls>>

\* inp = input("> "); print(borgify_line(inp))
Main_InteractiveLine ==
    /\ pc = "interactive"
    /\ nread < Len(source)
    /\ nread' = nread + 1
    /\ PrintBorgified(source[nread + 1], pc)
    /\ UNCHANGED <<fn, args, ret, exc, isatty, argv, source, fileState>>

\* EOFError or KeyboardInterrupt: the closing message.
Main_InteractiveEnd ==
    /\ pc = "interactive"
    /\ nread = Len(source)
    /\ stdout' = Append(stdout, "\n< YOU WILL BE ASSIMILATED >")
    /\ pc' = "done"
    /\ UNCHANGED <<fn, args, ret, exc, isatty, argv, source, nread, fileState, calls>>

NextMain ==
    \/ Main_Stdin
    \/ Main_OpenFile
    \/ Main_FileNotFound
    \/ Main_OpenError
    \/ Main_LiteralText
    \/ Main_Interactive
    \/ Main_ReadLine
    \/ Main_EndOfInput
    \/ Main_InteractiveLine
    \/ Main_InteractiveEnd

SpecMain == InitMain /\ [][NextMain]_vars

\* main reads lines from stdin or from a file.
ReadsLines == ~isatty \/ (Len(argv) = 1 /\ fileState = "readable")

\* line without its line terminator.
WithoutTerminator(line) ==
    IF line # "" /\ CharAt(line, Len(line)) = "\n"
    THEN SubSeq(line, 1, Len(line) - 1)
    ELSE line

\* C5 (as stated): in the stdin and file modes an attribution line is printed
\* as it came, less its line terminator, and is never passed to borgify_line.
C5_AttributionUnmodified ==
    (ReadsLines /\ pc # "crashed") =>
        \A i \in 1..nread :
            IsAttribution(source[i]) =>
                /\ stdout[i] = WithoutTerminator(source[i])
                /\ \A j \in 1..Len(calls) :
                      calls[j] \notin {source[i], WithoutTerminator(source[i]),
                                       str_rstrip(source[i])}

\* The single argument names a path that open() fails on.
PathFailsToOpen == isatty /\ Len(argv) = 1 /\ fileState \in {"missing", "denied"}

\* C9 (as stated): borgify_line never receives a path that failed to open.
C9_PathNeverPassed ==
    PathFailsToOpen => \A j \in 1..Len(calls) : calls[j] # argv[1]

\* C9 (amended): when open() raises FileNotFoundError the argument is taken
\* as literal text: no line is read, and once main has ended borgify_line has
\* been called exactly once, with the argument itself; when open() fails in
\* another way the error ends main and borgify_line is never called.
C9_MissingPathIsLiteralText ==
    PathFailsToOpen =>
        /\ nread = 0
        /\ \A j \in 1..Len(calls) : calls[j] = argv[1]
        /\ (fileState = "missing" /\ pc \in {"done", "crashed"}) => calls = <<argv[1]>>
        /\ (fileState = "missing" /\ pc = "done") => Len(stdout) = 1
        /\ fileState = "denied" => (calls = <<>> /\ stdout = <<>> /\ pc \in {"start", "crashed"})

C9_Witness ==
    /\ pc = "done"
    /\ fileState = "missing"
    /\ argv = <<"notes.txt">>
    /\ calls = <<"notes.txt">>
    /\ Len(stdout) = 1

=============================================================================
